---- MODULE Spec2Model ----
(***************************************************************************)
(* A model of jp (src/jp.go): the LineNumberReader that records where      *)
(* lines start while bytes flow through it, and runMain, the               *)
(* decode / evaluate / render loop that drives a json.Decoder over it.     *)
(*                                                                         *)
(* Two specifications share the variables:                                 *)
(*   Spec      the reader on its own: any sequence of Read calls, with any  *)
(*             buffer length and any chunking by the wrapped source, and   *)
(*             ConvertOffset queries on what has been read;                *)
(*   SpecMain  one run of runMain.                                         *)
(***************************************************************************)
EXTENDS Integers, Sequences, FiniteSets, TLC

\* ---------------------------------------------------------------- bounds
\* longest input stream the wrapped source delivers
MaxLen == 4
\* longest buffer handed to Read
MaxBuf == 3
\* longest input stream of the runs checked for termination
MaxFairLen == 2

\* ----------------------------------------------------------------- bytes
NL == "\n"
\* the reader only tells '\n' from everything else
ReaderBytes == {"a", NL}
\* the bytes of a JSON input, as far as runMain can tell them apart:
\* whitespace (space, newline), four one-byte documents, and a byte that is
\* a syntax error wherever it stands
SP == " "
Whitespace == {SP, NL}
\* "d": a document whose query result is not a string; "s": one whose result
\* is a string; "e": one on which evaluation fails; "m": one whose result
\* cannot be marshalled
Documents == {"d", "s", "e", "m"}
BAD == "x"
JsonBytes == Whitespace \cup Documents \cup {BAD}

\* error values of io.Reader
Nil == "nil"
EOF == "EOF"
IOERR == "read error"

VARIABLES
  input,             \* the bytes the wrapped source has delivered so far
  atEOF,             \* the wrapped source has reported end of input
  newlinePositions,  \* LineNumberReader.newlinePositions
  bytesRead,         \* LineNumberReader.bytesRead
  ret,               \* what the last Read returned: [n, err, p]
  query,             \* the ConvertOffset call made since the last Read:
                     \* [offset, linePos, charPos]
  pc,                \* where runMain is: "start", "loop" or "exit"
  cfg,               \* what runMain took from the cli.Context
  opened,            \* the input source has been opened and wrapped
  scanp,             \* the bytes of input the json.Decoder has consumed
  decErr,            \* the error of the Decoder's last refill in this Decode
  stdout,            \* what was written to os.Stdout, in order
  stderr,            \* the messages written to os.Stderr, in order
  status,            \* runMain's return value (-1 while it runs)
  iter               \* the iterations of the decode loop begun so far

reader == <<input, atEOF, newlinePositions, bytesRead, ret>>
main == <<pc, cfg, opened, scanp, decErr, stdout, stderr, status, iter>>
vars == <<input, atEOF, newlinePositions, bytesRead, ret, query,
          pc, cfg, opened, scanp, decErr, stdout, stderr, status, iter>>

NoRet == [n |-> 0, err |-> Nil, p |-> <<>>, len |-> 0]
NoQuery == [offset |-> -1, linePos |-> 0, charPos |-> 0]

Min(a, b) == IF a < b THEN a ELSE b

\* --------------------------------------------------- the wrapped source
\* actualReader.Read(p) on an *os.File with len(p) = L: a positive count
\* with no error (possibly short of L), or (0, EOF), or (0, error); a
\* zero-length buffer reads (0, nil).  The bytes come from the set bytes, and
\* the stream holds at most cap of them.
SourceReadUpTo(L, bytes, cap) ==
  IF L = 0 THEN {[n |-> 0, err |-> Nil, data |-> <<>>]}
  ELSE IF atEOF THEN {[n |-> 0, err |-> EOF, data |-> <<>>]}
  ELSE {[n |-> 0, err |-> EOF, data |-> <<>>], [n |-> 0, err |-> IOERR, data |-> <<>>]}
       \cup UNION {{[n |-> k, err |-> Nil, data |-> d] : d \in [1..k -> bytes]} :
                    k \in 1..Min(L, cap - Len(input))}

SourceRead(L, bytes) == SourceReadUpTo(L, bytes, MaxLen)

\* the buffer p after the source wrote n bytes into it: the rest is stale,
\* taken to hold newlines, the one value the scan would react to
Buffer(data, L) == data \o [i \in 1..(L - Len(data)) |-> NL]

\* ------------------------------------------------- LineNumberReader.Read
\* the scan loop taking every byte for a newline
RECURSIVE ScanLoopEveryByte(_, _, _, _, _)
ScanLoopEveryByte(p, n, i, np, br) ==
  IF i >= Len(p) THEN [np |-> np, early |-> FALSE]
  ELSE IF i >= n THEN [np |-> np, early |-> TRUE]
  ELSE ScanLoopEveryByte(p, n, i + 1, Append(np, br + i + 1), br)

\* the loop `for i, v := range p`: it returns from Read as soon as i >= n
\* (early = TRUE), and falls out of the loop only when p is exhausted
RECURSIVE ScanLoop(_, _, _, _, _)
ScanLoop(p, n, i, np, br) ==
  IF i >= Len(p) THEN [np |-> np, early |-> FALSE]
  ELSE IF i >= n THEN [np |-> np, early |-> TRUE]
  ELSE ScanLoop(p, n, i + 1,
                IF p[i + 1] = NL THEN Append(np, br + i + 1) ELSE np, br)

\* Read using len(p) where it should use n, and not looking at err
ReadEffectIgnoresN(p, n, err, np, br) ==
  LET r == ScanLoop(p, Len(p), 0, np, br)
  IN  [np |-> r.np, br |-> br + Len(p)]

\* Read's effect on (newlinePositions, bytesRead), given what the source did
ReadEffect(p, n, err, np, br) ==
  IF err # Nil \/ n = 0 THEN [np |-> np, br |-> br]
  ELSE LET r == ScanLoop(p, n, 0, np, br)
       IN  IF r.early THEN [np |-> r.np, br |-> br]
           ELSE [np |-> r.np, br |-> br + n]

\* ---------------------------------------- LineNumberReader.ConvertOffset
\* sort.Search: binary search for the smallest index whose entry is >= x
RECURSIVE SearchLoop(_, _, _, _)
SearchLoop(a, x, i, j) ==
  IF i < j
  THEN LET h == (i + j) \div 2
       IN  IF ~(a[h + 1] >= x) THEN SearchLoop(a, x, h + 1, j)
           ELSE SearchLoop(a, x, i, h)
  ELSE i

\* the same search with > in place of >= (an upper-bound search)
RECURSIVE SearchLoopUpper(_, _, _, _)
SearchLoopUpper(a, x, i, j) ==
  IF i < j
  THEN LET h == (i + j) \div 2
       IN  IF ~(a[h + 1] > x) THEN SearchLoopUpper(a, x, h + 1, j)
           ELSE SearchLoopUpper(a, x, i, h)
  ELSE i

SearchIntsUpper(a, x) == SearchLoopUpper(a, x, 0, Len(a))

SearchInts(a, x) == SearchLoop(a, x, 0, Len(a))

\* ConvertOffset without the step from the 0-indexed search result to the
\* 1-indexed line
ConvertOffsetZeroIndexed(np, offset) ==
  LET index == SearchInts(np, offset)
  IN  IF index = 0 THEN <<0, offset>>
      ELSE <<index, offset - np[index]>>

ConvertOffset(np, offset) ==
  LET index == SearchInts(np, offset)
  IN  IF index = 0 THEN <<1, offset>>
      ELSE <<index + 1, offset - np[index]>>

\* ---------------------------------------------------------------- runMain
NoCfg == [expression |-> "none", noColor |-> FALSE, ast |-> FALSE,
          stream |-> FALSE, unquoted |-> FALSE]

\* one message on os.Stderr; line and char are 0 where the message has none
Msg(m) == [msg |-> m, line |-> 0, char |-> 0]
MsgAt(m, l, c) == [msg |-> m, line |-> l, char |-> c]
\* one write to os.Stdout
Out(k, d) == [kind |-> k, doc |-> d]
Newline == Out("newline", "")

\* errMsg: writes the message to os.Stderr and returns 1
errMsg(err, m) == [stderr |-> Append(err, m), code |-> 1]

\* a finished run
Exit(c, op, out, err, st) ==
  [pc |-> "exit", cfg |-> c, opened |-> op, stdout |-> out, stderr |-> err,
   status |-> st]

\* the --ast branch placed after the input source has been opened
ParseASTAfterOpen(c) ==
  IF c.expression = "syntax"
  THEN LET r == errMsg(<<>>, Msg("syntax error"))
       IN  Exit(c, TRUE, <<>>, r.stderr, r.code)
  ELSE Exit(c, TRUE, <<Newline, Out("ast", ""), Newline>>, <<>>, 0)

\* the --ast branch: parser.Parse(expression), then the AST or the error
ParseAST(c) ==
  IF c.expression = "syntax"
  THEN LET r == errMsg(<<>>, Msg("syntax error"))
       IN  Exit(c, FALSE, <<>>, r.stderr, r.code)
  ELSE Exit(c, FALSE, <<Newline, Out("ast", ""), Newline>>, <<>>, 0)

\* color.NoColor after the switch on --color
NoColorFor(color, libNoColor) ==
  CASE color = "always" -> FALSE
    [] color = "never" -> TRUE
    [] OTHER -> libNoColor

\* runMain up to the loop, for one command line a:
\*   exprFile   "" | "ok" | "unreadable"     nargs     0 | 1
\*   text       "valid" | "syntax"           color     always|auto|never|none
\*   filename   "" | "ok" | "missing"        ast, stream, unquoted, libNoColor
Prologue(a) ==
  LET c == [expression |-> a.text,
            noColor |-> NoColorFor(a.color, a.libNoColor),
            ast |-> a.ast, stream |-> a.stream, unquoted |-> a.unquoted]
      usage(m) == LET r == errMsg(<<>>, Msg(m))
                  IN  Exit([c EXCEPT !.expression = "none",
                                     !.noColor = a.libNoColor],
                           FALSE, <<>>, r.stderr, r.code)
  IN  IF a.exprFile = "unreadable" THEN usage("Error opening expression file")
      ELSE IF a.exprFile = "" /\ a.nargs = 0
        THEN usage("Must provide at least one argument.")
      ELSE IF a.color \notin {"always", "auto", "never"}
        THEN LET r == errMsg(<<>>, Msg("Invalid color specification"))
             IN  Exit([c EXCEPT !.noColor = a.libNoColor], FALSE, <<>>,
                      r.stderr, r.code)
      ELSE IF a.ast THEN ParseAST(c)
      ELSE IF a.filename = "missing"
        THEN LET r == errMsg(<<>>, Msg("Error opening input file"))
             IN  Exit(c, FALSE, <<>>, r.stderr, r.code)
      ELSE [pc |-> "loop", cfg |-> c, opened |-> TRUE, stdout |-> <<>>,
            stderr |-> <<>>, status |-> -1]

CommandLines ==
  [exprFile : {"", "ok", "unreadable"}, nargs : 0..1,
   text : {"valid", "syntax"}, color : {"always", "auto", "never", "none"},
   libNoColor : BOOLEAN, ast : BOOLEAN, stream : BOOLEAN, unquoted : BOOLEAN,
   filename : {"", "ok", "missing"}]

\* ------------------------------------------------- jsonParser.Decode
\* the first byte the Decoder has not consumed that is not whitespace, as
\* a count of bytes from the start of the stream; 0 if there is none
NextToken(in, sp) ==
  LET T == {t \in (sp + 1)..Len(in) : in[t] \notin Whitespace}
  IN  IF T = {} THEN 0 ELSE CHOOSE t \in T : \A u \in T : t <= u

\* the Decoder has scanned all it holds without reaching a value or an
\* error, and its last refill did not fail: it reads again
NeedsRefill(in, sp, derr) == NextToken(in, sp) = 0 /\ derr = Nil

\* one iteration's result
Step(p, sp, out, err, st) ==
  [pc |-> p, scanp |-> sp, stdout |-> out, stderr |-> err, status |-> st]

\* Decode failed, and the value of errMsg is returned
DecodeFailureReturnsErrMsg(np, sp, out, err, offset) ==
  LET lc == ConvertOffset(np, offset)
      r == IF offset > 0
           THEN errMsg(err, MsgAt("Error parsing input json", lc[1], lc[2]))
           ELSE errMsg(err, Msg("Error parsing input json"))
  IN  Step("exit", sp, out, r.stderr, r.code)

\* Decode failed, and after the message the loop tries the next document
DecodeFailureContinues(np, sp, out, err, offset) ==
  LET lc == ConvertOffset(np, offset)
      r == IF offset > 0
           THEN errMsg(err, MsgAt("Error parsing input json", lc[1], lc[2]))
           ELSE errMsg(err, Msg("Error parsing input json"))
  IN  Step("loop", sp, out, r.stderr, -1)

\* Decode failed, and the message is printed with fmt.Printf
DecodeFailureToStdout(np, sp, out, err, offset) ==
  LET lc == ConvertOffset(np, offset)
      m == IF offset > 0
           THEN MsgAt("Error parsing input json", lc[1], lc[2])
           ELSE Msg("Error parsing input json")
  IN  Step("exit", sp, Append(out, Out("message", m.msg)), err, 2)

\* Decode failed: a *json.SyntaxError at offset (offset > 0), or another
\* error; the message, then return 2
DecodeFailure(np, sp, out, err, offset) ==
  LET lc == ConvertOffset(np, offset)
      r == IF offset > 0
           THEN errMsg(err, MsgAt("Error parsing input json", lc[1], lc[2]))
           ELSE errMsg(err, Msg("Error parsing input json"))
  IN  Step("exit", sp, out, r.stderr, 2)

\* jmespath.Search failed, and the loop goes on to the next document
SearchFailureContinues(sp, out, err, m) ==
  LET r == errMsg(err, Msg(m))
  IN  Step("loop", sp, out, r.stderr, -1)

\* jmespath.Search(expression, input) failed: the message, then return 1
SearchFailure(sp, out, err, m) ==
  LET r == errMsg(err, Msg(m))
  IN  Step("exit", sp, out, r.stderr, r.code)

\* the rendering without the --unquoted branch
RenderAlwaysQuoted(c, doc) ==
  IF c.noColor THEN Out("json", doc) ELSE Out("colorjson", doc)

\* the bytes written for a result: the raw string, or MarshalIndent of
\* encoding/json or of jsoncolor
Render(c, doc) ==
  IF c.unquoted /\ doc = "s" THEN Out("raw", doc)
  ELSE IF c.noColor THEN Out("json", doc)
  ELSE Out("colorjson", doc)

\* after the trailing newline: break, whatever --stream says
AfterRenderBreaks(c, sp, out, err) == Step("exit", sp, out, err, 0)

\* after the trailing newline: never break
AfterRenderContinues(c, sp, out, err) == Step("loop", sp, out, err, -1)

\* after the trailing newline: break unless --stream
AfterRender(c, sp, out, err) ==
  IF ~c.stream THEN Step("exit", sp, out, err, 0)
  ELSE Step("loop", sp, out, err, -1)

\* the loop body with the expression checked before Decode's result
LoopBodyChecksExpressionFirst(c, np, in, sp, derr, out, err) ==
  LET t == NextToken(in, sp)
  IN  IF c.expression = "syntax"
        THEN SearchFailure(sp, out, err, "syntax error")
      ELSE IF t = 0
      THEN IF derr = EOF THEN Step("exit", sp, out, err, 0)
           ELSE DecodeFailure(np, sp, out, err, 0)
      ELSE IF in[t] = BAD THEN DecodeFailure(np, sp, out, err, t)
      ELSE IF in[t] = "e"
        THEN SearchFailure(t, out, err, "Error evaluating JMESPath expression")
      ELSE IF ~(c.unquoted /\ in[t] = "s") /\ in[t] = "m"
        THEN LET r == errMsg(err, Msg("Error marshalling result to JSON"))
             IN  Step("exit", t, out, r.stderr, 3)
      ELSE AfterRender(c, t, out \o <<Render(c, in[t]), Newline>>, err)

\* the body of the for loop once Decode has returned
LoopBody(c, np, in, sp, derr, out, err) ==
  LET t == NextToken(in, sp)
  IN  IF t = 0
      THEN IF derr = EOF THEN Step("exit", sp, out, err, 0)
           ELSE DecodeFailure(np, sp, out, err, 0)
      ELSE IF in[t] = BAD THEN DecodeFailure(np, sp, out, err, t)
      ELSE IF c.expression = "syntax"
        THEN SearchFailure(t, out, err, "syntax error")
      ELSE IF in[t] = "e"
        THEN SearchFailure(t, out, err, "Error evaluating JMESPath expression")
      ELSE IF ~(c.unquoted /\ in[t] = "s") /\ in[t] = "m"
        THEN LET r == errMsg(err, Msg("Error marshalling result to JSON"))
             IN  Step("exit", t, out, r.stderr, 3)
      ELSE AfterRender(c, t, out \o <<Render(c, in[t]), Newline>>, err)

\* ------------------------------------------------------------------ Init
Init ==
  /\ input = <<>>
  /\ atEOF = FALSE
  /\ newlinePositions = <<>>
  /\ bytesRead = 0
  /\ ret = NoRet
  /\ query = NoQuery
  /\ pc = "start"
  /\ cfg = NoCfg
  /\ opened = FALSE
  /\ scanp = 0
  /\ decErr = Nil
  /\ stdout = <<>>
  /\ stderr = <<>>
  /\ status = -1
  /\ iter = 0

\* one call lnr.Read(p) with len(p) = L
DoReadFrom(L, outcomes) ==
  \E out \in outcomes :
    LET p == Buffer(out.data, L)
        e == ReadEffect(p, out.n, out.err, newlinePositions, bytesRead)
    IN  /\ input' = input \o out.data
        /\ atEOF' = (atEOF \/ out.err = EOF)
        /\ newlinePositions' = e.np
        /\ bytesRead' = e.br
        /\ ret' = [n |-> out.n, err |-> out.err, p |-> SubSeq(p, 1, out.n), len |-> L]

DoRead(L, bytes) == DoReadFrom(L, SourceRead(L, bytes))

\* --------------------------------------------------- the reader on its own
Read ==
  /\ \E L \in 0..MaxBuf : DoRead(L, ReaderBytes)
  /\ query' = NoQuery
  /\ UNCHANGED main

\* lnr.ConvertOffset(offset), for an offset within what has been read
Convert ==
  /\ \E offset \in 0..Len(input) :
       LET r == ConvertOffset(newlinePositions, offset)
       IN  query' = [offset |-> offset, linePos |-> r[1], charPos |-> r[2]]
  /\ UNCHANGED <<reader, main>>

Next == Read \/ Convert

Spec == Init /\ [][Next]_vars

\* ------------------------------------------------------- one run of runMain
Setup ==
  /\ pc = "start"
  /\ \E a \in CommandLines :
       LET r == Prologue(a)
       IN  /\ pc' = r.pc
           /\ cfg' = r.cfg
           /\ opened' = r.opened
           /\ stdout' = r.stdout
           /\ stderr' = r.stderr
           /\ status' = r.status
  /\ UNCHANGED <<reader, query, scanp, decErr, iter>>

\* inside Decode: the Decoder refills its buffer through the reader
Refill ==
  /\ pc = "loop"
  /\ NeedsRefill(input, scanp, decErr)
  /\ \E L \in 1..MaxBuf : DoRead(L, JsonBytes)
  /\ decErr' = ret'.err
  /\ UNCHANGED <<query, pc, cfg, opened, scanp, stdout, stderr, status, iter>>

\* Decode returns, and the rest of the loop body runs
Iterate ==
  /\ pc = "loop"
  /\ ~NeedsRefill(input, scanp, decErr)
  /\ LET r == LoopBody(cfg, newlinePositions, input, scanp, decErr,
                       stdout, stderr)
     IN  /\ pc' = r.pc
         /\ scanp' = r.scanp
         /\ stdout' = r.stdout
         /\ stderr' = r.stderr
         /\ status' = r.status
  /\ decErr' = Nil
  /\ iter' = iter + 1
  /\ UNCHANGED <<reader, query, cfg, opened>>

NextMain == Setup \/ Refill \/ Iterate

SpecMain == Init /\ [][NextMain]_vars

\* the runs over inputs of at most MaxFairLen bytes
RefillShort ==
  /\ pc = "loop"
  /\ NeedsRefill(input, scanp, decErr)
  /\ \E L \in 1..MaxBuf :
       DoReadFrom(L, SourceReadUpTo(L, JsonBytes, Min(MaxLen, MaxFairLen)))
  /\ decErr' = ret'.err
  /\ UNCHANGED <<query, pc, cfg, opened, scanp, stdout, stderr, status, iter>>

NextMainFair == Setup \/ RefillShort \/ Iterate

\* runMain runs on one thread that is never descheduled for good, and a
\* read of a finite input returns: a step that can be taken is taken
SpecMainFair == Init /\ [][NextMainFair]_vars /\ WF_vars(NextMainFair)

\* ================================================================ claims
StrictlyIncreasing(s) == \A i \in 1..(Len(s) - 1) : s[i] < s[i + 1]
IsPrefix(s, t) == Len(s) <= Len(t) /\ SubSeq(t, 1, Len(s)) = s

\* the offsets at which the lines of s start: 0, and one past every '\n'
LineStarts(s) == {0} \cup {i \in 1..Len(s) : s[i] = NL}
\* the start of the line that holds offset o, and that line's number
StartOf(s, o) == CHOOSE b \in LineStarts(s) :
                   b <= o /\ \A c \in LineStarts(s) : c <= o => c <= b
LineOf(s, o) == Cardinality({b \in LineStarts(s) : b <= o})

\* C1: every Read leaves bytesRead equal to the number of bytes delivered
\* so far; it grows by exactly the count the source returned and never
\* decreases.
C1_BytesReadCountsDelivered ==
  [][/\ bytesRead' = Len(input')
     /\ bytesRead' - bytesRead = Len(input') - Len(input)
     /\ bytesRead' >= bytesRead]_vars

\* C2: newlinePositions is strictly increasing in every state, and a step
\* only ever appends to it.
C2_StrictlyIncreasingAppendOnly ==
  [][/\ StrictlyIncreasing(newlinePositions')
     /\ IsPrefix(newlinePositions, newlinePositions')]_vars

\* C3: every recorded position p is one past a '\n' of the delivered
\* stream: the byte at absolute offset p - 1 is a newline.
C3_PositionsFollowNewlines ==
  \A k \in 1..Len(newlinePositions) :
    LET p == newlinePositions[k]
    IN  p \in 1..Len(input) /\ input[p] = NL

\* C4: once the stream has been read to its end, ConvertOffset of an offset
\* within line i returns line i and the offset minus the start of line i.
\* Stated for the offsets that are not themselves the first byte of a line
\* after a newline (those are the case of C5).
C4_ConvertOffsetLineAndColumn ==
  (/\ atEOF
   /\ query # NoQuery
   /\ (query.offset = 0 \/ query.offset \notin LineStarts(input)))
  => /\ query.linePos = LineOf(input, query.offset)
     /\ query.charPos = query.offset - StartOf(input, query.offset)

Docs(s) == SelectSeq(s, LAMBDA b : b \in Documents)
\* what a run writes for a sequence of documents it renders
RenderAll(c, docs) ==
  [i \in 1..(2 * Len(docs)) |->
     IF i % 2 = 1 THEN Render(c, docs[(i + 1) \div 2]) ELSE Newline]
UsageMessages ==
  {"Error opening expression file", "Must provide at least one argument.",
   "Invalid color specification", "Error opening input file"}
\* the exit status the error taxonomy gives each message
StatusOf(m) ==
  CASE m \in UsageMessages -> 1
    [] m = "syntax error" -> 1
    [] m = "Error evaluating JMESPath expression" -> 1
    [] m = "Error parsing input json" -> 2
    [] m = "Error marshalling result to JSON" -> 3

\* C6: when the first thing in the input is malformed at an offset before
\* the first newline, the run reports line 1, exits 2 and writes nothing to
\* standard output, whatever follows and however the input was chunked.
C6_FirstLineErrorReportsLineOne ==
  LET t == NextToken(input, 0)
  IN  (/\ pc = "exit" /\ opened /\ iter = 1
       /\ t # 0 /\ input[t] = BAD
       /\ \A i \in 1..t : input[i] # NL)
      => /\ status = 2
         /\ stdout = <<>>
         /\ Len(stderr) = 1
         /\ stderr[1].msg = "Error parsing input json"
         /\ stderr[1].line = 1

\* C7: an input of k valid documents, read without error and queried with a
\* valid expression: with --stream the run writes the k renderings in input
\* order and exits 0; without it, the rendering of the first document only.
C7_ValidDocumentsRenderedInOrder ==
  (/\ pc = "exit" /\ opened
   /\ cfg.expression = "valid"
   /\ \A i \in 1..Len(input) : input[i] \in Whitespace \cup {"d", "s"}
   /\ ret.err # IOERR)
  => /\ status = 0
     /\ stderr = <<>>
     /\ stdout = RenderAll(cfg, IF cfg.stream THEN Docs(input)
                                ELSE SubSeq(Docs(input), 1,
                                            Min(1, Len(Docs(input)))))

C7_Witness ==
  /\ pc = "exit" /\ cfg.stream /\ cfg.expression = "valid"
  /\ Docs(input) = <<"d", "s">>
  /\ BAD \notin {input[i] : i \in 1..Len(input)}
  /\ atEOF
  /\ Len(stdout) = 4

\* C8: with --stream, a failure on the N-th document ends the run in that
\* iteration: one message, a status in 1..3, no later document decoded, and
\* on standard output exactly the renderings of documents 1..N-1, each
\* followed by its newline.
C8_FailureEndsStreamingRun ==
  (cfg.stream /\ opened /\ stderr # <<>>)
  => /\ pc = "exit"
     /\ status \in 1..3
     /\ Len(stderr) = 1
     /\ Len(Docs(SubSeq(input, 1, scanp))) \in {iter - 1, iter}
     /\ stdout = RenderAll(cfg, SubSeq(Docs(input), 1, iter - 1))

C8_Witness ==
  /\ cfg.stream /\ pc = "exit" /\ iter = 3
  /\ status = 1 /\ cfg.expression = "valid"
  /\ Len(stdout) = 4

\* C9: a run ends with a status in 0..3 fixed by its one failure: 1 for a
\* usage, expression-syntax or evaluation error, 2 for a decode error (with
\* or without a position), 3 for a serialization error, and 0 exactly when
\* there was no failure.
C9_ExitStatusByFailure ==
  IF pc = "exit"
  THEN /\ status \in 0..3
       /\ Len(stderr) <= 1
       /\ status = 0 <=> stderr = <<>>
       /\ stderr # <<>> => status = StatusOf(stderr[1].msg)
  ELSE status = -1 /\ stderr = <<>>

C9_Witness ==
  /\ pc = "exit" /\ status = 2 /\ iter = 2
  /\ stderr = <<Msg("Error parsing input json")>>
  /\ ret.err = IOERR

C11_RenderingAndNewline ==
  (opened /\ ~cfg.ast)
  => /\ Len(stdout) % 2 = 0
     /\ \A i \in 1..Len(stdout) :
          IF i % 2 = 0 THEN stdout[i] = Newline
          ELSE /\ stdout[i].kind \in {"raw", "json", "colorjson"}
               /\ stdout[i].kind = "raw" <=> (cfg.unquoted /\ stdout[i].doc = "s")
               /\ stdout[i].doc = Docs(input)[(i + 1) \div 2]
     /\ Cardinality({i \in 1..Len(stdout) : stdout[i] = Newline})
          = Cardinality({i \in 1..Len(stdout) : stdout[i] # Newline})

\* a streaming run with --unquoted that wrote a non-string result as JSON
\* and then a string result raw
C11_Witness ==
  /\ pc = "exit" /\ cfg.unquoted /\ cfg.stream
  /\ stdout = <<Out("json", "d"), Newline, Out("raw", "s"), Newline>>

\* C12: ConvertOffset(0) is (1, 0) in every state of the reader, also when
\* the input begins with a newline or was delivered in short reads.
C12_OffsetZeroIsLineOneColumnZero ==
  /\ ConvertOffset(newlinePositions, 0) = <<1, 0>>
  /\ query.offset = 0 => (query.linePos = 1 /\ query.charPos = 0)

C12_Witness ==
  /\ query.offset = 0 /\ query.linePos = 1
  /\ Len(input) >= 2 /\ input[1] = NL
  /\ bytesRead < Len(input)

\* C13: while the input delivered holds no newline, ConvertOffset(x) is
\* (1, x) for every offset x within it.
C13_NoNewlineIsLineOne ==
  (\A i \in 1..Len(input) : input[i] # NL)
  => /\ \A x \in 0..Len(input) :
          ConvertOffset(newlinePositions, x) = <<1, x>>
     /\ query # NoQuery => (query.linePos = 1 /\ query.charPos = query.offset)

C13_Witness ==
  /\ query.offset = 3 /\ query.charPos = 3
  /\ Len(input) >= 3
  /\ \A i \in 1..Len(input) : input[i] # NL

\* C14: standard output holds rendered results only (or the AST text with
\* --ast); every failure writes its message to standard error and nothing
\* to standard output.
C14_DiagnosticsOnStderrOnly ==
  /\ \A i \in 1..Len(stdout) :
       stdout[i].kind \in {"raw", "json", "colorjson", "newline", "ast"}
  /\ IF cfg.ast
     THEN stdout \in {<<>>, <<Newline, Out("ast", ""), Newline>>}
     ELSE stdout = RenderAll(cfg, SubSeq(Docs(input), 1, Len(stdout) \div 2))
  /\ (pc = "exit" /\ status # 0)
     => /\ Len(stderr) = 1
        /\ stderr[1].msg \in UsageMessages \cup
             {"syntax error", "Error evaluating JMESPath expression",
              "Error parsing input json", "Error marshalling result to JSON"}
        /\ cfg.ast => stdout = <<>>

C14_Witness ==
  /\ pc = "exit" /\ status = 2
  /\ stderr = <<MsgAt("Error parsing input json", 1, 2)>>
  /\ stdout = <<Out("json", "d"), Newline>>

\* C15: a Read whose underlying read returned an error or no bytes hands
\* that (n, err) to its caller and leaves newlinePositions and bytesRead as
\* they were; and every Read hands its caller exactly the bytes and the
\* count the source produced.
C15_ReadPassesThrough ==
  [][query' = NoQuery /\ ret' # NoRet
     => /\ input' = input \o ret'.p
        /\ ret'.n = Len(ret'.p)
        /\ ret'.n <= ret'.len
        /\ (ret'.err # Nil \/ ret'.n = 0)
           => /\ newlinePositions' = newlinePositions
              /\ bytesRead' = bytesRead
              /\ input' = input
              /\ ret'.n = 0]_vars

\* end of input reported after a newline has been read and counted
C15_Witness ==
  /\ ret.err = EOF /\ ret.n = 0 /\ ret.len >= 1
  /\ Len(newlinePositions) >= 1
  /\ bytesRead >= 1

\* C16: without --stream the run ends after the first rendered document:
\* when the first document decodes, evaluates and serializes, the status is
\* 0 and one result is written, whatever follows it in the input.
C16_NonStreamingStopsAfterFirst ==
  LET t == NextToken(input, 0)
  IN  (/\ pc = "exit" /\ opened /\ ~cfg.stream
       /\ cfg.expression = "valid"
       /\ t # 0 /\ input[t] \in {"d", "s"})
      => /\ status = 0
         /\ stderr = <<>>
         /\ stdout = <<Render(cfg, input[t]), Newline>>
         /\ iter = 1
         /\ scanp = t

\* a malformed byte right after the first document, already delivered
C16_Witness ==
  /\ pc = "exit" /\ ~cfg.stream /\ status = 0
  /\ Len(input) >= 2 /\ input[1] = "d" /\ input[2] = BAD
  /\ Len(stdout) = 2

\* C17: outside --ast an invalid expression is noticed only once a document
\* has decoded: end of input first gives status 0 and no message, a
\* malformed first document gives 2, and a decoded first document gives 1
\* with the syntax error, before anything is written.
C17_ExpressionCheckedAfterDecode ==
  LET t == NextToken(input, 0)
  IN  (opened /\ cfg.expression = "syntax")
      => /\ stdout = <<>>
         /\ pc = "loop" => (iter = 0 /\ stderr = <<>>)
         /\ pc = "exit"
            => /\ iter = 1
               /\ (t = 0 /\ ret.err = EOF) => (status = 0 /\ stderr = <<>>)
               /\ (t = 0 /\ ret.err # EOF) => status = 2
               /\ (t # 0 /\ input[t] = BAD)
                  => (status = 2 /\ stderr[1].msg = "Error parsing input json")
               /\ (t # 0 /\ input[t] \in Documents)
                  => (status = 1 /\ stderr = <<Msg("syntax error")>>)

\* an empty input under an invalid expression
C17_Witness ==
  /\ pc = "exit" /\ opened /\ cfg.expression = "syntax"
  /\ input = <<>> /\ atEOF
  /\ status = 0 /\ stderr = <<>>

\* C18: in every state of the reader, sorted or not, ConvertOffset of an
\* offset >= 0 returns a line in 1..len(newlinePositions)+1 and a column
\* >= 0, and a column >= 1 whenever the line is greater than 1.
C18_LineAndColumnRanges ==
  /\ \A x \in 0..(MaxLen + 1) :
       LET r == ConvertOffset(newlinePositions, x)
       IN  /\ r[1] \in 1..(Len(newlinePositions) + 1)
           /\ r[2] >= 0
           /\ r[1] > 1 => r[2] >= 1
  /\ query # NoQuery
     => /\ query.linePos \in 1..(Len(newlinePositions) + 1)
        /\ query.charPos >= 0
        /\ query.linePos > 1 => query.charPos >= 1

\* a query past the first line on positions that are out of order
C18_Witness ==
  /\ query # NoQuery /\ query.linePos > 1
  /\ \E i \in 1..(Len(newlinePositions) - 1) :
       newlinePositions[i] > newlinePositions[i + 1]

\* the documents the Decoder has handed to the loop so far
DocsDecoded == Len(Docs(SubSeq(input, 1, scanp)))

\* C19: the loop ends with an exit status for every finite input and every
\* mode: an iteration either ends the run or consumes one more document,
\* and without --stream at most one document is ever decoded.
C19_LoopTerminates ==
  /\ <>(pc = "exit" /\ status \in 0..3)
  /\ [][(pc = "loop" /\ iter' = iter + 1)
        => \/ pc' = "exit"
           \/ (pc' = "loop" /\ cfg.stream /\ DocsDecoded' = DocsDecoded + 1)]_vars
  /\ [](~cfg.stream => DocsDecoded <= 1)
  /\ [](DocsDecoded <= iter /\ iter <= Len(input) + 1)

\* a streaming run that ended after two documents and the end of input
C19_Witness ==
  /\ pc = "exit" /\ cfg.stream /\ status = 0
  /\ iter = 3 /\ DocsDecoded = 2

====
